---- MODULE Spec2Model ----
(***************************************************************************)
(* A model of the wbia_tbd plugin (src/wbia_tbd/_plugin.py): the process-  *)
(* wide embedding cache filled by tbd_embedding, the pair-scoring table    *)
(* function wbia_plugin_tbd and the score helpers it is built from, the    *)
(* rank evaluation, and the network the embeddings come from               *)
(* (src/wbia_miew_id/models) with the way the plugin loads it.             *)
(*                                                                         *)
(* Numbers are exact rationals <<n, d>>.  An embedding is an integer       *)
(* vector <<x, y>> of length 5, so that every cosine distance is rational. *)
(***************************************************************************)
EXTENDS Integers, Sequences, FiniteSets, TLC

VARIABLES
    cache,    \* GLOBAL_EMBEDDING_CACHE: annotation id -> embedding
    call,     \* the tbd_embedding call the host has made and not yet consumed
    prev,     \* the arguments and the result of the call consumed before it
    procs,    \* concurrent callers of tbd_embedding: where each one stands
    names,    \* the host's database: annotation id -> name text
    out,      \* the wbia_plugin_tbd run the host has made and not yet consumed
    pure      \* the last application of a function to inputs of the caller's choice

vars == <<cache, call, prev, procs, names, out, pure>>
hostVars == <<call, prev>>
scoreVars == <<names, out, pure>>

(***************************************************************************)
(* Bounds of the model.                                                    *)
(***************************************************************************)
NumAids == 2        \* annotation ids 1..NumAids
MaxLen == 2         \* longest aid_list handed to tbd_embedding
NumConfigs == 2     \* config paths 1..NumConfigs
NumCallers == 2     \* threads calling tbd_embedding at the same time
DistSteps == 4      \* distances handed to a score helper: 0, 1/DistSteps, .., 2
ScoreSteps == 2     \* name scores handed to a score helper: 0, 1/ScoreSteps, .., 1
MaxWidth == 3       \* feature widths, fc_dim and n_classes: 2..MaxWidth
NumRankAids == 3    \* annotation ids 1..NumRankAids of the rank evaluation
MaxRank == 3        \* max_rank of accuracy_at_k: 0..MaxRank

Aids == 1..NumAids
Configs == 1..NumConfigs
Callers == 1..NumCallers
AidLists == UNION {[1..n -> Aids] : n \in 0..MaxLen}

Min(a, b) == IF a < b THEN a ELSE b
Range(s) == {s[i] : i \in DOMAIN s}

(***************************************************************************)
(* What a Python call hands back: a value, or the exception it raised.     *)
(***************************************************************************)
Returned(v) == [raised |-> "", val |-> v]
Raised(e) == [raised |-> e, val |-> <<>>]

(***************************************************************************)
(* The embedding backend.  model(images) in tbd_compute_embedding is a     *)
(* deterministic function of the annotation and of the config the model    *)
(* and the transforms were built from; Forward tabulates one such function *)
(* whose values differ for every (annotation, config) of the model.        *)
(***************************************************************************)
UnitVectors ==
    << <<5, 0>>, <<4, 3>>, <<3, 4>>,
       <<-4, 3>>, <<0, 5>>, <<-5, 0>>,
       <<0, -5>>, <<3, -4>>, <<-3, 4>>,
       <<-3, -4>>, <<4, -3>>, <<-4, -3>> >>

Forward(aid, config) ==
    UnitVectors[(((aid - 1) * 3 + (config - 1)) % Len(UnitVectors)) + 1]

\* tbd_compute_embedding: aid_list[0] is read first, then one forward pass
\* per annotation, concatenated in the order of aid_list.
TbdComputeEmbedding(aid_list, config) ==
    IF aid_list = <<>>
    THEN Raised("IndexError")
    ELSE Returned([i \in 1..Len(aid_list) |-> Forward(aid_list[i], config)])

\* ibs.depc_annot.get('TbdEmbedding', aids, 'embedding', config_map): the
\* rows of the table tbd_embedding_depc fills, one per requested annotation.
DepcGet(aid_list, config) ==
    Returned([i \in 1..Len(aid_list) |-> Forward(aid_list[i], config)])

\* One invocation of the backend as tbd_embedding makes it.
BackendCall(aid_list, config, use_depc) ==
    [via |-> IF use_depc THEN "depc" ELSE "compute",
     aids |-> aid_list,
     config |-> config,
     out |-> IF use_depc THEN DepcGet(aid_list, config)
                         ELSE TbdComputeEmbedding(aid_list, config)]

(***************************************************************************)
(* tbd_embedding, as a function of the cache it finds.                     *)
(***************************************************************************)
\* (a variant that recomputes every requested id, cached or not)
DirtyAidsAll(c, aid_list) == aid_list

\* for aid in aid_list: if aid not in GLOBAL_EMBEDDING_CACHE: append
DirtyAids(c, aid_list) == SelectSeq(aid_list, LAMBDA a : a \notin DOMAIN c)

\* (a variant that keeps only the newest entry)
PutEvicting(c, k, v) == [x \in {k} |-> v]

Put(c, k, v) == [x \in DOMAIN c \cup {k} |-> IF x = k THEN v ELSE c[x]]

\* for dirty_aid, dirty_embedding in zip(...): CACHE[dirty_aid] = dirty_embedding
\* (a variant that pairs the ids with the embeddings in reverse)
InsertOneReversed(c, aids, embs, i) == Put(c, aids[i], embs[Len(embs) + 1 - i])

\* One round of the loop: the i-th pair of zip(dirty_aids, dirty_embeddings).
InsertOne(c, aids, embs, i) == Put(c, aids[i], embs[i])

RECURSIVE InsertFrom(_, _, _, _)
InsertFrom(c, aids, embs, i) ==
    IF i > Min(Len(aids), Len(embs))
    THEN c
    ELSE InsertFrom(InsertOne(c, aids, embs, i), aids, embs, i + 1)

\* (a variant that forgets to store the computed embeddings)
InsertNone(c, aids, embs) == c

InsertAll(c, aids, embs) == InsertFrom(c, aids, embs, 1)

\* ut.take(GLOBAL_EMBEDDING_CACHE, aid_list)
Take(c, aid_list) ==
    IF \E i \in DOMAIN aid_list : aid_list[i] \notin DOMAIN c
    THEN Raised("KeyError")
    ELSE Returned([i \in 1..Len(aid_list) |-> c[aid_list[i]]])

\* (a variant that asks the backend for one id at a time)
ComputePerId(dirty, config, use_depc) ==
    [i \in 1..Len(dirty) |-> BackendCall(<<dirty[i]>>, config, use_depc)]

\* if len(dirty_aids) > 0: one backend invocation for the whole list
ComputeBatch(dirty, config, use_depc) ==
    IF Len(dirty) > 0
    THEN <<BackendCall(dirty, config, use_depc)>>
    ELSE <<>>

\* The backend invocations of one call.
BackendCalls(c, aid_list, config, use_depc) ==
    ComputeBatch(DirtyAids(c, aid_list), config, use_depc)

\* The cache the call leaves behind.
CacheAfter(c, aid_list, config, use_depc) ==
    LET calls == BackendCalls(c, aid_list, config, use_depc)
    IN  IF calls = <<>> \/ calls[1].out.raised # ""
        THEN c
        ELSE InsertAll(c, calls[1].aids, calls[1].out.val)

\* What the call returns (or raises).
TbdEmbeddingResult(c, aid_list, config, use_depc) ==
    LET calls == BackendCalls(c, aid_list, config, use_depc)
    IN  IF calls # <<>> /\ calls[1].out.raised # ""
        THEN Raised(calls[1].out.raised)
        ELSE Take(CacheAfter(c, aid_list, config, use_depc), aid_list)

(***************************************************************************)
(* The host calling tbd_embedding, one call after the other.               *)
(***************************************************************************)
EmptyCache == [a \in {} |-> <<0, 0>>]
NoCall == [active |-> FALSE]
NoPrev == [called |-> FALSE, aid_list |-> <<>>, ncalls |-> 0, val |-> <<>>]

Idle == [pc |-> "idle"]
NoRun == [active |-> FALSE]
NoPure == [fn |-> "none"]

\* Everything but the host's database, as the module leaves it on import.
Fresh ==
    /\ cache = EmptyCache
    /\ call = NoCall
    /\ prev = NoPrev
    /\ procs = [p \in Callers |-> Idle]
    /\ out = NoRun
    /\ pure = NoPure

Init ==
    /\ Fresh
    /\ names = [a \in Aids |-> "A"]

TbdEmbedding(aid_list, config, use_depc) ==
    /\ ~call.active
    /\ cache' = CacheAfter(cache, aid_list, config, use_depc)
    /\ call' = [active |-> TRUE,
                aid_list |-> aid_list,
                config |-> config,
                use_depc |-> use_depc,
                before |-> cache,
                backend |-> BackendCalls(cache, aid_list, config, use_depc),
                ret |-> TbdEmbeddingResult(cache, aid_list, config, use_depc)]
    /\ UNCHANGED <<prev, procs, scoreVars>>

\* The caller takes the returned list; the next call may follow.
Return ==
    /\ call.active
    /\ prev' = [called |-> TRUE,
                aid_list |-> call.aid_list,
                ncalls |-> Len(call.backend),
                val |-> call.ret.val]
    /\ call' = NoCall
    /\ UNCHANGED <<cache, procs, scoreVars>>

Next ==
    \/ /\ ~call.active
       /\ \E aid_list \in AidLists, config \in Configs, use_depc \in BOOLEAN :
             TbdEmbedding(aid_list, config, use_depc)
    \/ Return

Spec == Init /\ [][Next]_vars

(***************************************************************************)
(* Several threads inside tbd_embedding at once.  The cache is a plain     *)
(* dict without a lock: a thread may be preempted between any two of its   *)
(* dict operations (the membership test of one id, the store of one pair,  *)
(* the lookup of one id) and around the backend invocation.                *)
(***************************************************************************)
\* if len(dirty_aids) > 0: compute and insert; then read back
AfterScan(dirty) == IF Len(dirty) > 0 THEN "compute" ELSE "read"

\* The loop tests and jumps that follow a step; they touch no shared state.
RECURSIVE Settle(_)
Settle(st) ==
    IF st.pc = "scan" /\ st.i > Len(st.aid_list)
    THEN Settle([st EXCEPT !.pc = AfterScan(st.dirty), !.i = 1])
    ELSE IF st.pc = "insert"
            /\ st.i > Min(Len(st.dirty), Len(st.backend[1].out.val))
    THEN Settle([st EXCEPT !.pc = "read", !.i = 1])
    ELSE IF st.pc = "read" /\ st.i > Len(st.aid_list)
    THEN [st EXCEPT !.pc = "done"]
    ELSE st

Enter(p, aid_list, config, use_depc) ==
    /\ procs[p].pc = "idle"
    /\ procs' = [procs EXCEPT ![p] =
           Settle([pc |-> "scan", aid_list |-> aid_list, config |-> config,
                   use_depc |-> use_depc, i |-> 1, dirty |-> <<>>,
                   backend |-> <<>>, ret |-> <<>>])]
    /\ UNCHANGED <<cache, hostVars, scoreVars>>

\* if aid not in GLOBAL_EMBEDDING_CACHE: dirty_aids.append(aid)
ScanStep(p) ==
    LET st == procs[p]
        aid == st.aid_list[st.i]
    IN  /\ st.pc = "scan"
        /\ procs' = [procs EXCEPT ![p] =
               Settle([st EXCEPT
                   !.dirty = IF aid \notin DOMAIN cache
                             THEN Append(st.dirty, aid) ELSE st.dirty,
                   !.i = st.i + 1])]
        /\ UNCHANGED <<cache, hostVars, scoreVars>>

\* dirty_embeddings = ibs.depc_annot.get(...) or tbd_compute_embedding(...)
ComputeStep(p) ==
    LET st == procs[p]
        calls == ComputeBatch(st.dirty, st.config, st.use_depc)
    IN  /\ st.pc = "compute"
        /\ procs' = [procs EXCEPT ![p] =
               IF \E k \in DOMAIN calls : calls[k].out.raised # ""
               THEN [st EXCEPT !.backend = calls, !.pc = "raised"]
               ELSE Settle([st EXCEPT !.backend = calls, !.pc = "insert", !.i = 1])]
        /\ UNCHANGED <<cache, hostVars, scoreVars>>

\* GLOBAL_EMBEDDING_CACHE[dirty_aid] = dirty_embedding
InsertStep(p) ==
    LET st == procs[p]
    IN  /\ st.pc = "insert"
        /\ cache' = InsertOne(cache, st.dirty, st.backend[1].out.val, st.i)
        /\ procs' = [procs EXCEPT ![p] = Settle([st EXCEPT !.i = st.i + 1])]
        /\ UNCHANGED <<hostVars, scoreVars>>

\* ut.take: one lookup per id of aid_list
ReadStep(p) ==
    LET st == procs[p]
        aid == st.aid_list[st.i]
    IN  /\ st.pc = "read"
        /\ procs' = [procs EXCEPT ![p] =
               IF aid \notin DOMAIN cache
               THEN [st EXCEPT !.pc = "raised"]
               ELSE Settle([st EXCEPT !.ret = Append(st.ret, cache[aid]),
                                      !.i = st.i + 1])]
        /\ UNCHANGED <<cache, hostVars, scoreVars>>

\* return embeddings (or the exception leaves the function)
Leave(p) ==
    /\ procs[p].pc \in {"done", "raised"}
    /\ procs' = [procs EXCEPT ![p] = Idle]
    /\ UNCHANGED <<cache, hostVars, scoreVars>>

NextConc ==
    \E p \in Callers :
        \/ /\ procs[p].pc = "idle"
           /\ \E aid_list \in AidLists, config \in Configs, use_depc \in BOOLEAN :
                 Enter(p, aid_list, config, use_depc)
        \/ ScanStep(p)
        \/ ComputeStep(p)
        \/ InsertStep(p)
        \/ ReadStep(p)
        \/ Leave(p)

SpecConc == Init /\ [][NextConc]_vars

(***************************************************************************)
(* Exact rationals <<n, d>> in lowest terms with d >= 0.  A zero           *)
(* denominator stands for the values IEEE division by zero gives:          *)
(* <<1, 0>> is inf, <<-1, 0>> is -inf and <<0, 0>> is nan.                 *)
(***************************************************************************)
Abs(x) == IF x < 0 THEN -x ELSE x
Sign(x) == IF x < 0 THEN -1 ELSE IF x > 0 THEN 1 ELSE 0

RECURSIVE Gcd(_, _)
Gcd(a, b) == IF b = 0 THEN a ELSE Gcd(b, a % b)

Rat(n, d) ==
    IF d = 0
    THEN <<Sign(n), 0>>
    ELSE LET g == Gcd(Abs(n), Abs(d))
         IN  <<Sign(n) * Sign(d) * (Abs(n) \div g), Abs(d) \div g>>

Whole(n) == <<n, 1>>
IsFinite(r) == r[2] # 0
RAdd(a, b) == Rat(a[1] * b[2] + b[1] * a[2], a[2] * b[2])
RSub(a, b) == Rat(a[1] * b[2] - b[1] * a[2], a[2] * b[2])
RTimesInt(a, k) == Rat(a[1] * k, a[2])
RDivInt(a, k) == Rat(a[1], a[2] * k)
RLe(a, b) == IsFinite(a) /\ IsFinite(b) /\ a[1] * b[2] <= b[1] * a[2]

(***************************************************************************)
(* Distances and scores.                                                   *)
(***************************************************************************)
Dot(u, v) == u[1] * v[1] + u[2] * v[2]
Max(a, b) == IF a >= b THEN a ELSE b

\* The Euclidean norm: it lies between the largest component and their sum.
Norm(u) ==
    LET squared == Dot(u, u)
        a == Abs(u[1])
        b == Abs(u[2])
    IN  CHOOSE n \in Max(a, b)..(a + b) : n * n = squared

\* compute_distance_matrix(a, b, metric='cosine'), one cell: 1 - cos(u, v)
CosineDistance(u, v) ==
    LET norms == Norm(u) * Norm(v)
    IN  Rat(norms - Dot(u, v), norms)

\* (a variant that forgets to halve)
DistanceToScoreUnhalved(distance) == RSub(Whole(2), distance)

\* The module-level distance_to_score, "for cosine distance".
DistanceToScore(distance) == RDivInt(RSub(Whole(2), distance), 2)

\* The distance_to_score that wbia_plugin_tbd defines for itself.
PluginDistanceToScore(distance) == RSub(Whole(1), distance)

(***************************************************************************)
(* Labels.  A label is <<text, u>>: u = 0 for a name text as the host      *)
(* gives it, u = aid for UNKNOWN + str(semantic uuid of annotation aid).   *)
(***************************************************************************)
UNKNOWN == "____"
NameTexts == {"A", "B", UNKNOWN}

\* ibs.get_annot_name_texts(daid_list)
AnnotNameTexts(daid_list) == [i \in DOMAIN daid_list |-> <<names[daid_list[i]], 0>>]

\* _db_labels_for_tbd: the name, or for an unnamed annotation its own uuid
DbLabelsForTbd(daid_list) ==
    [i \in DOMAIN daid_list |->
        IF names[daid_list[i]] # UNKNOWN
        THEN <<names[daid_list[i]], 0>>
        ELSE <<UNKNOWN, daid_list[i]>>]

\* daid_name_list.count(name)
NameCount(daid_name_list, name) ==
    Cardinality({i \in DOMAIN daid_name_list : daid_name_list[i] = name})

\* name_score_dict[name] / name_count_dict[name] on numpy floats
PerAnnotScore(score, count) == RDivInt(score, count)

\* aid_scores_from_name_scores.  numpy says whether the scores are numpy
\* floats, as distance_to_score makes them, or plain Python numbers: a zero
\* count gives inf or nan for the first and raises for the second.
AidScoresFromNameScores(name_score_dict, daid_list, numpy) ==
    LET daid_name_list == DbLabelsForTbd(daid_list)
        keys == DOMAIN name_score_dict
    IN  IF ~numpy /\ \E name \in keys : NameCount(daid_name_list, name) = 0
        THEN Raised("ZeroDivisionError")
        ELSE LET name_annotwise_score_dict ==
                     [name \in keys |->
                         PerAnnotScore(name_score_dict[name],
                                       NameCount(daid_name_list, name))]
             IN  Returned([i \in DOMAIN daid_list |->
                     IF daid_name_list[i] \in keys
                     THEN name_annotwise_score_dict[daid_name_list[i]]
                     ELSE Whole(0)])

(***************************************************************************)
(* The score helpers applied to inputs of the caller's choice.             *)
(***************************************************************************)
DistGrid == {Rat(i, DistSteps) : i \in 0..(2 * DistSteps)}
ScoreGrid == {Rat(i, ScoreSteps) : i \in 0..ScoreSteps}
LabelKeys == {<<"A", 0>>, <<"B", 0>>, <<UNKNOWN, 0>>}
NameScoreDicts == UNION {[K -> ScoreGrid] : K \in SUBSET LabelKeys}

InitScore ==
    /\ Fresh
    /\ names \in [Aids -> NameTexts]

ApplyDistanceToScore(d1, d2) ==
    /\ pure.fn = "none"
    /\ pure' = [fn |-> "distance_to_score", d1 |-> d1, d2 |-> d2,
                s1 |-> DistanceToScore(d1), s2 |-> DistanceToScore(d2)]
    /\ UNCHANGED <<cache, hostVars, procs, names, out>>

ApplyAidScores(name_score_dict, daid_list, numpy) ==
    /\ pure.fn = "none"
    /\ pure' = [fn |-> "aid_scores_from_name_scores",
                name_score_dict |-> name_score_dict,
                daid_list |-> daid_list,
                numpy |-> numpy,
                ret |-> AidScoresFromNameScores(name_score_dict, daid_list, numpy)]
    /\ UNCHANGED <<cache, hostVars, procs, names, out>>

\* The caller takes the value; the next application may follow.
Forget ==
    /\ pure.fn # "none"
    /\ pure' = NoPure
    /\ UNCHANGED <<cache, hostVars, procs, names, out>>

NextScore ==
    \/ /\ pure.fn = "none"
       /\ \E d1, d2 \in DistGrid : ApplyDistanceToScore(d1, d2)
    \/ /\ pure.fn = "none"
       /\ \E name_score_dict \in NameScoreDicts, daid_list \in AidLists,
             numpy \in BOOLEAN :
             ApplyAidScores(name_score_dict, daid_list, numpy)
    \/ Forget

SpecScore == InitScore /\ [][NextScore]_vars

(***************************************************************************)
(* The pair-scoring table function wbia_plugin_tbd and what it calls.      *)
(***************************************************************************)
RECURSIVE SetToSeq(_)
SetToSeq(S) ==
    IF S = {}
    THEN <<>>
    ELSE LET m == CHOOSE x \in S : \A y \in S : x <= y
         IN  <<m>> \o SetToSeq(S \ {m})

RECURSIVE SortByDistance(_)
SortByDistance(entries) ==
    IF entries = {}
    THEN <<>>
    ELSE LET m == CHOOSE e \in entries :
                      \A f \in entries : RLe(e.distance, f.distance)
         IN  <<m>> \o SortByDistance(entries \ {m})

\* pred_light(query_emb, db_embs, db_labels): the labels of the database,
\* nearest first, each with the distance of its nearest annotation.
PredLight(query_emb, db_embs, db_labels) ==
    LET Distances(label) ==
            {CosineDistance(query_emb, db_embs[i]) :
                 i \in {j \in DOMAIN db_labels : db_labels[j] = label}}
        Nearest(label) ==
            LET ds == Distances(label)
            IN  CHOOSE d \in ds : \A e \in ds : RLe(d, e)
    IN  SortByDistance({[label |-> label, distance |-> Nearest(label)] :
                            label \in Range(db_labels)})

\* distance_dicts_to_name_score_dicts with the default conversion_func
DistanceDictsToNameScoreDicts(distance_dicts) ==
    [label \in {distance_dicts[i].label : i \in DOMAIN distance_dicts} |->
        LET last == CHOOSE i \in DOMAIN distance_dicts :
                        /\ distance_dicts[i].label = label
                        /\ \A j \in DOMAIN distance_dicts :
                              distance_dicts[j].label = label => j <= i
        IN  DistanceToScore(distance_dicts[last].distance)]

\* One round of the loop over qaids.  tbd_predict_light and
\* tbd_predict_light_distance ask tbd_embedding for daids and then for
\* [qaid] (the depc backend never raises, so each call is its inserts
\* followed by ut.take).  The round gives the cache it leaves behind and, as
\* out, the distances and the name scores computed and qaid's score for
\* every daid.
ScoreQuery(c, qaid, daids, config, use_knn) ==
    LET c1 == CacheAfter(c, daids, config, TRUE)
        db_embs == Take(c1, daids).val
        c2 == CacheAfter(c1, <<qaid>>, config, TRUE)
        query_emb == Take(c2, <<qaid>>).val[1]
        distances == [i \in DOMAIN daids |-> CosineDistance(query_emb, db_embs[i])]
        name_dists == PredLight(query_emb, db_embs, AnnotNameTexts(daids))
        name_scores == DistanceDictsToNameScoreDicts(name_dists)
        aid_score_list == AidScoresFromNameScores(name_scores, daids, TRUE).val
    IN  [cache |-> c2,
         out |-> [distances |-> IF use_knn
                                THEN <<>>
                                ELSE [d \in Range(daids) |->
                                        distances[CHOOSE i \in DOMAIN daids :
                                                      daids[i] = d]],
                  name_scores |-> IF use_knn THEN name_scores ELSE <<>>,
                  scores |-> [d \in Range(daids) |->
                                LET i == CHOOSE j \in DOMAIN daids : daids[j] = d
                                IN  IF use_knn
                                    THEN aid_score_list[i]
                                    ELSE PluginDistanceToScore(distances[i])]]]

\* for qaid in qaids: the rounds from the k-th on, with the cache and the
\* qaid_score_dict the rounds before have left.
RECURSIVE ScoreQueriesFrom(_, _, _, _, _, _, _)
ScoreQueriesFrom(c, qaid_score_dict, qaids, daids, config, use_knn, k) ==
    IF k > Len(qaids)
    THEN [cache |-> c, qaid_score_dict |-> qaid_score_dict]
    ELSE LET round == ScoreQuery(c, qaids[k], daids, config, use_knn)
         IN  ScoreQueriesFrom(round.cache,
                              Put(qaid_score_dict, qaids[k], round.out),
                              qaids, daids, config, use_knn, k + 1)

\* qaid_score_dict and what was computed on the way, for every qaid, and
\* the cache the loop leaves behind
ScoreQueries(c, qaid_list, daid_list, config, use_knn) ==
    ScoreQueriesFrom(c, <<>>, SetToSeq(Range(qaid_list)),
                     SetToSeq(Range(daid_list)), config, use_knn, 1)

\* (a variant that yields the computed score for a pair with itself too)
YieldScoreNoSelfCheck(qaid_score_dict, qaid, daid) ==
    qaid_score_dict[qaid].scores[daid]

\* if qaid == daid: daid_score = 0.0, else the score computed for the pair
YieldScore(qaid_score_dict, qaid, daid) ==
    IF qaid = daid
    THEN Whole(0)
    ELSE qaid_score_dict[qaid].scores[daid]

\* The rows a depc request hands to the table function: queries x database.
PairsOf(Q, D) ==
    LET qs == SetToSeq(Q)
        ds == SetToSeq(D)
        n == Len(qs) * Len(ds)
    IN  [qaid_list |-> [i \in 1..n |-> qs[((i - 1) \div Len(ds)) + 1]],
         daid_list |-> [i \in 1..n |-> ds[((i - 1) % Len(ds)) + 1]]]

\* The code only compares name texts with one another and with UNKNOWN, so
\* the names are taken up to renaming: "B" names an annotation only when "A"
\* names an earlier one.
PluginNames ==
    {n \in [Aids -> NameTexts] :
        \A a \in Aids : n[a] = "B" => \E b \in 1..(a - 1) : n[b] = "A"}

InitPlugin ==
    /\ Fresh
    /\ names \in PluginNames

\* One run of wbia_plugin_tbd on cache c: the cache it leaves behind and, as
\* out, its arguments, what the loop over qaids computed and the score it
\* yields for every row of zip(qaid_list, daid_list).
WbiaPluginTbdRun(c, qaid_list, daid_list, config, use_knn) ==
    LET run == ScoreQueries(c, qaid_list, daid_list, config, use_knn)
    IN  [cache |-> run.cache,
         out |-> [active |-> TRUE,
                  qaid_list |-> qaid_list,
                  daid_list |-> daid_list,
                  config |-> config,
                  use_knn |-> use_knn,
                  computed |-> run.qaid_score_dict,
                  scores |-> [i \in DOMAIN qaid_list |->
                      YieldScore(run.qaid_score_dict, qaid_list[i], daid_list[i])]]]

WbiaPluginTbd(qaid_list, daid_list, config, use_knn) ==
    /\ ~out.active
    /\ \E run \in {WbiaPluginTbdRun(cache, qaid_list, daid_list, config, use_knn)} :
          /\ cache' = run.cache
          /\ out' = run.out
    /\ UNCHANGED <<hostVars, procs, names, pure>>

\* The host stores the yielded rows; the next request may follow.
Consume ==
    /\ out.active
    /\ out' = NoRun
    /\ UNCHANGED <<cache, hostVars, procs, names, pure>>

NextPlugin ==
    \/ /\ ~out.active
       /\ \E rows \in {PairsOf(Q, D) : Q \in SUBSET Aids, D \in SUBSET Aids},
             config \in Configs, use_knn \in BOOLEAN :
             WbiaPluginTbd(rows.qaid_list, rows.daid_list, config, use_knn)
    \/ Consume

SpecPlugin == InitPlugin /\ [][NextPlugin]_vars

(***************************************************************************)
(* MiewIdNet (src/wbia_miew_id/models/model.py).  A tensor is known by     *)
(* its width (the size of its last dimension) and by the stages it went    *)
(* through; a layer built for one width raises on an input of another.     *)
(***************************************************************************)
Widths == 2..MaxWidth
LossModules == {"softmax", "arcface", "cosface"}
NetParams ==
    [n_classes : Widths, width : Widths, use_fc : BOOLEAN, fc_dim : Widths,
     loss_module : LossModules]

Tensor(width, stages) == [width |-> width, stages |-> stages]

\* nn.BatchNorm1d(num_features) applied to x
BatchNorm1d(num_features, x) ==
    IF x.width # num_features
    THEN Raised("RuntimeError")
    ELSE Returned(Tensor(x.width, Append(x.stages, "bn")))

\* nn.Linear(in_features, out_features) applied to x
Linear(layer, x) ==
    IF x.width # layer.in_features
    THEN Raised("RuntimeError")
    ELSE Returned(Tensor(layer.out_features, Append(x.stages, layer.name)))

\* nn.Dropout applied to x
Dropout(x) == Tensor(x.width, Append(x.stages, "dropout"))

\* MiewIdNet.__init__: the layers, each with the width it is built for.
\* width is self.backbone.classifier.in_features of the timm backbone.
MiewIdNet(params) ==
    LET final_in_features == IF params.use_fc THEN params.fc_dim ELSE params.width
    IN  [use_fc |-> params.use_fc,
         loss_module |-> params.loss_module,
         backbone |-> params.width,
         bn |-> IF params.use_fc THEN params.fc_dim ELSE params.width,
         fc |-> IF params.use_fc
                THEN <<[name |-> "fc", in_features |-> params.width,
                        out_features |-> params.n_classes]>>
                ELSE <<>>,
         final |-> [name |-> IF params.loss_module = "arcface"
                             THEN "ElasticArcFace"
                             ELSE "Linear",
                    in_features |-> final_in_features,
                    out_features |-> params.n_classes]]

\* MiewIdNet.extract_feat.  With use_fc the three further stages are
\* computed into x1; the value returned is x.
ExtractFeat(net) ==
    LET pooled == Tensor(net.backbone, <<"backbone", "pooling">>)
        x == BatchNorm1d(net.bn, pooled)
    IN  IF x.raised # ""
        THEN x
        ELSE IF ~net.use_fc
             THEN x
             ELSE LET x1 == BatchNorm1d(net.bn, Dropout(x.val))
                  IN  IF x1.raised # ""
                      THEN x1
                      ELSE LET x2 == Linear(net.fc[1], x1.val)
                           IN  IF x2.raised # "" THEN x2 ELSE x

\* self.final(feature, label) or self.final(feature): a Linear head takes
\* one argument only.
Final(net, feature, with_label) ==
    IF with_label /\ net.final.name = "Linear"
    THEN Raised("TypeError")
    ELSE Linear(net.final, feature)

\* MiewIdNet.forward(x, label): what it hands back and how often it called
\* self.final.
MiewIdNetForward(net, training, has_label) ==
    LET feature == ExtractFeat(net)
    IN  IF feature.raised # ""
        THEN [ret |-> feature, final_calls |-> 0]
        ELSE IF ~training
             THEN [ret |-> feature, final_calls |-> 0]
             ELSE IF ~has_label
                  THEN [ret |-> Raised("AssertionError"), final_calls |-> 0]
                  ELSE [ret |-> Final(net, feature.val,
                                      net.loss_module \in {"arcface", "cosface", "adacos"}),
                        final_calls |-> 1]

ApplyForward(params, training, has_label) ==
    /\ pure.fn = "none"
    /\ pure' = [fn |-> "forward", params |-> params, training |-> training,
                has_label |-> has_label,
                run |-> MiewIdNetForward(MiewIdNet(params), training, has_label)]
    /\ UNCHANGED <<cache, hostVars, procs, names, out>>

ApplyExtractFeat(params) ==
    /\ pure.fn = "none"
    /\ pure' = [fn |-> "extract_feat", params |-> params,
                ret |-> ExtractFeat(MiewIdNet(params))]
    /\ UNCHANGED <<cache, hostVars, procs, names, out>>

(***************************************************************************)
(* Loading the network: _load_config, _load_model (_plugin.py) and         *)
(* get_model (model_helpers.py).  The host is known by its torch build and *)
(* by whether a CUDA device is present, the checkpoint file by the device  *)
(* its tensors were saved from.                                            *)
(***************************************************************************)
Hosts == [build : {"cpu", "cuda"}, gpu : BOOLEAN]
Devices == {"cpu", "cuda"}

\* torch.cuda.is_available()
CudaIsAvailable(host) == host.build = "cuda" /\ host.gpu

\* model.to(torch.device("cuda")) and model.cuda(): the model on the GPU, or
\* the error of a build without CUDA or of a host without a device.
ToCuda(host, model) ==
    IF host.build = "cpu"
    THEN Raised("AssertionError")
    ELSE IF ~host.gpu
         THEN Raised("RuntimeError")
         ELSE Returned([model EXCEPT !.device = "cuda",
                                     !.cuda_moves = model.cuda_moves + 1])

\* model.load_state_dict(torch.load(checkpoint_path)): no map_location, so
\* the tensors go back to the device they were saved from.
LoadStateDict(host, model, saved_on) ==
    IF saved_on = "cuda" /\ ~CudaIsAvailable(host)
    THEN Raised("RuntimeError")
    ELSE Returned([model EXCEPT !.loaded = TRUE])

\* _load_config: use_gpu and engine.device follow torch.cuda.is_available()
LoadConfig(host) ==
    [use_gpu |-> CudaIsAvailable(host),
     device |-> IF CudaIsAvailable(host) THEN "cuda" ELSE "cpu"]

\* get_model(cfg, checkpoint_path, use_gpu)
GetModel(host, config, saved_on, use_gpu) ==
    LET model == [device |-> "cpu", cuda_moves |-> 0, loaded |-> FALSE]
        placed == IF use_gpu
                  THEN ToCuda(host, model)
                  ELSE Returned(model)
    IN  IF placed.raised # ""
        THEN placed
        ELSE LoadStateDict(host, placed.val, saved_on)

\* _load_model: get_model(config, model_path), use_gpu left at its default
\* True, then DataParallel(model).cuda() if config.use_gpu.
LoadModel(host, config, saved_on) ==
    LET model == GetModel(host, config, saved_on, TRUE)
    IN  IF model.raised # ""
        THEN model
        ELSE IF config.use_gpu
             THEN ToCuda(host, model.val)
             ELSE model

\* tbd_compute_embedding on a host: the species of aid_list[0], the config,
\* the model, then the embeddings of the loaded model.
TbdComputeEmbeddingOn(host, saved_on, aid_list, config_path) ==
    IF aid_list = <<>>
    THEN [ret |-> Raised("IndexError"), loaded |-> <<>>]
    ELSE LET config == LoadConfig(host)
             model == LoadModel(host, config, saved_on)
         IN  [ret |-> IF model.raised # ""
                      THEN Raised(model.raised)
                      ELSE TbdComputeEmbedding(aid_list, config_path),
              loaded |-> <<[config |-> config, model |-> model]>>]

ApplyGetModel(host, config, saved_on, use_gpu) ==
    /\ pure.fn = "none"
    /\ pure' = [fn |-> "get_model", host |-> host, config |-> config,
                saved_on |-> saved_on, use_gpu |-> use_gpu,
                ret |-> GetModel(host, config, saved_on, use_gpu)]
    /\ UNCHANGED <<cache, hostVars, procs, names, out>>

ApplyTbdComputeEmbedding(host, saved_on, aid_list, config_path) ==
    /\ pure.fn = "none"
    /\ pure' = [fn |-> "tbd_compute_embedding", host |-> host,
                saved_on |-> saved_on, aid_list |-> aid_list,
                run |-> TbdComputeEmbeddingOn(host, saved_on, aid_list, config_path)]
    /\ UNCHANGED <<cache, hostVars, procs, names, out>>

NextModel ==
    \/ /\ pure.fn = "none"
       /\ \E params \in NetParams, training \in BOOLEAN, has_label \in BOOLEAN :
             ApplyForward(params, training, has_label)
    \/ /\ pure.fn = "none"
       /\ \E params \in NetParams : ApplyExtractFeat(params)
    \/ /\ pure.fn = "none"
       /\ \E host \in Hosts, saved_on \in Devices, use_gpu \in BOOLEAN :
             ApplyGetModel(host, LoadConfig(host), saved_on, use_gpu)
    \/ /\ pure.fn = "none"
       /\ \E host \in Hosts, saved_on \in Devices, aid_list \in AidLists,
             config_path \in Configs :
             ApplyTbdComputeEmbedding(host, saved_on, aid_list, config_path)
    \/ Forget

SpecModel == Init /\ [][NextModel]_vars

(***************************************************************************)
(* The match results: TbdRequest.postprocess_execute and get_match_results *)
(* on the rows wbia_plugin_tbd was asked for and the scores it yielded.    *)
(***************************************************************************)
\* ibs.get_annot_nids: the rowid of the annotation's name, and for an
\* unnamed annotation a rowid of its own; written as the label of that
\* identity.
AnnotNid(aid) == DbLabelsForTbd(<<aid>>)[1]

\* np.sum(dists) over the rows of one name
RECURSIVE SumRows(_, _)
SumRows(score_list, rows) ==
    IF rows = {}
    THEN Whole(0)
    ELSE LET i == CHOOSE j \in rows : \A k \in rows : j <= k
         IN  RAdd(score_list[i], SumRows(score_list, rows \ {i}))

\* get_match_results: one match result per query, over the rows of the
\* query whose daid is not the query itself.
GetMatchResults(qaid_list, daid_list, score_list) ==
    [qaid \in Range(qaid_list) |->
        LET is_valid == {i \in DOMAIN qaid_list :
                            qaid_list[i] = qaid /\ daid_list[i] # qaid}
            rows == SetToSeq(is_valid)
            dnids == {AnnotNid(daid_list[i]) : i \in is_valid}
        IN  [qaid |-> qaid,
             qnid |-> AnnotNid(qaid),
             daid_list |-> [k \in DOMAIN rows |-> daid_list[rows[k]]],
             dnid_list |-> [k \in DOMAIN rows |-> AnnotNid(daid_list[rows[k]])],
             annot_scores |-> [k \in DOMAIN rows |-> score_list[rows[k]]],
             name_scores |->
                 [nid \in dnids |->
                     SumRows(score_list,
                             {i \in is_valid : AnnotNid(daid_list[i]) = nid})]]]

\* postprocess_execute on the result of the run: the match results, kept
\* with the run they were made from.
PostprocessExecute ==
    /\ out.active
    /\ pure.fn = "none"
    /\ pure' = [fn |-> "get_match_results",
                qaid_list |-> out.qaid_list,
                daid_list |-> out.daid_list,
                use_knn |-> out.use_knn,
                computed |-> out.computed,
                cm_list |-> GetMatchResults(out.qaid_list, out.daid_list, out.scores)]
    /\ UNCHANGED <<cache, hostVars, procs, names, out>>

NextMatch ==
    \/ NextPlugin
    \/ PostprocessExecute
    \/ Forget

SpecMatch == InitPlugin /\ [][NextMatch]_vars

(***************************************************************************)
(* Rank evaluation: _tbd_accuracy, tbd_mass_accuracy, accuracy_at_k.  The  *)
(* fractions are exact; the code adds them as floats.                      *)
(***************************************************************************)
RankAids == 1..NumRankAids
RankLists == UNION {[1..n -> RankAids] : n \in 0..NumRankAids}
Ranks == {-1} \cup (1..(MaxRank + 1))
RankResults == UNION {[1..n -> Ranks] : n \in 0..NumRankAids}
MaxRanks == 0..MaxRank

\* config=None: the config of the species
DefaultConfig == 1

\* The names of the annotations, up to renaming as in PluginNames.
RankNames ==
    {n \in [RankAids -> NameTexts] :
        \A a \in RankAids : n[a] = "B" => \E b \in 1..(a - 1) : n[b] = "A"}

\* daids = daid_list.copy(); daids.remove(qaid): the first occurrence goes
ListRemove(daid_list, qaid) ==
    IF qaid \notin Range(daid_list)
    THEN Raised("ValueError")
    ELSE LET first == CHOOSE i \in DOMAIN daid_list :
                          /\ daid_list[i] = qaid
                          /\ \A j \in 1..(i - 1) : daid_list[j] # qaid
         IN  Returned([i \in 1..(Len(daid_list) - 1) |->
                          IF i < first THEN daid_list[i] ELSE daid_list[i + 1]])

\* ans_names.index(ground_truth) + 1, or -1 on ValueError
RankOf(ans_names, ground_truth) ==
    IF ground_truth \notin Range(ans_names)
    THEN -1
    ELSE CHOOSE i \in DOMAIN ans_names :
             /\ ans_names[i] = ground_truth
             /\ \A j \in 1..(i - 1) : ans_names[j] # ground_truth

\* _tbd_accuracy on cache c: the cache the two calls of tbd_embedding in
\* tbd_predict_light leave behind, and the rank.
TbdAccuracy(c, qaid, daid_list) ==
    LET daids == ListRemove(daid_list, qaid)
    IN  IF daids.raised # ""
        THEN [cache |-> c, rank |-> daids]
        ELSE LET c1 == CacheAfter(c, daids.val, DefaultConfig, TRUE)
                 db_embs == Take(c1, daids.val).val
                 c2 == CacheAfter(c1, <<qaid>>, DefaultConfig, TRUE)
                 query_emb == Take(c2, <<qaid>>).val[1]
                 ans == PredLight(query_emb, db_embs, AnnotNameTexts(daids.val))
                 ans_names == [i \in DOMAIN ans |-> ans[i].label]
                 ground_truth == <<names[qaid], 0>>
             IN  [cache |-> c2, rank |-> Returned(RankOf(ans_names, ground_truth))]

\* ranks = [_tbd_accuracy(ibs, aid, daid_list) for aid in aid_list], from the
\* k-th query on; the first query that raises ends the call.
RECURSIVE TbdMassAccuracyFrom(_, _, _, _, _)
TbdMassAccuracyFrom(c, ranks, aid_list, daid_list, k) ==
    IF k > Len(aid_list)
    THEN [cache |-> c, ranks |-> Returned(ranks)]
    ELSE LET one == TbdAccuracy(c, aid_list[k], daid_list)
         IN  IF one.rank.raised # ""
             THEN [cache |-> one.cache, ranks |-> one.rank]
             ELSE TbdMassAccuracyFrom(one.cache, Append(ranks, one.rank.val),
                                      aid_list, daid_list, k + 1)

\* tbd_mass_accuracy(ibs, aid_list, daid_list)
TbdMassAccuracy(c, aid_list, daid_list) ==
    TbdMassAccuracyFrom(c, <<>>, aid_list, daid_list, 1)

\* ranks.count(i)
RankCount(ranks, i) == Cardinality({j \in DOMAIN ranks : ranks[j] = i})

\* sum(percent_counts[:i])
RECURSIVE SumFirst(_, _)
SumFirst(percent_counts, i) ==
    IF i = 0
    THEN Whole(0)
    ELSE RAdd(SumFirst(percent_counts, i - 1), percent_counts[i])

\* accuracy_at_k(ibs, ranks, max_rank)
AccuracyAtK(ranks, max_rank) ==
    IF max_rank >= 1 /\ Len(ranks) = 0
    THEN Raised("ZeroDivisionError")
    ELSE LET counts == [i \in 1..max_rank |-> RankCount(ranks, i)]
             percent_counts ==
                 [i \in 1..max_rank |-> Rat(counts[i], Len(ranks))]
         IN  Returned([i \in 1..max_rank |-> SumFirst(percent_counts, i)])

InitRank ==
    /\ Fresh
    /\ names \in RankNames

\* tbd_mass_accuracy, daid_list given or left None (then it is aid_list).
\* pred_light is not asked about an empty database: the database has two
\* entries or more wherever there is a query.
ApplyTbdMassAccuracy(aid_list, daid_list) ==
    /\ pure.fn = "none"
    /\ aid_list = <<>> \/ Len(daid_list) >= 2
    /\ \E run \in {TbdMassAccuracy(cache, aid_list, daid_list)} :
          /\ cache' = run.cache
          /\ pure' = [fn |-> "tbd_mass_accuracy", aid_list |-> aid_list,
                      daid_list |-> daid_list, ranks |-> run.ranks]
    /\ UNCHANGED <<hostVars, procs, names, out>>

\* accuracy_at_k on the ranks tbd_mass_accuracy has just returned, as in
\* tbd_new_accuracy.
AccuracyOfRanks(max_rank) ==
    /\ pure.fn = "tbd_mass_accuracy"
    /\ pure.ranks.raised = ""
    /\ pure' = [fn |-> "accuracy_at_k", ranks |-> pure.ranks.val,
                max_rank |-> max_rank,
                evaluated |-> <<[aid_list |-> pure.aid_list,
                                 daid_list |-> pure.daid_list]>>,
                ret |-> AccuracyAtK(pure.ranks.val, max_rank)]
    /\ UNCHANGED <<cache, hostVars, procs, names, out>>

\* accuracy_at_k on ranks of the caller's choice
ApplyAccuracyAtK(ranks, max_rank) ==
    /\ pure.fn = "none"
    /\ pure' = [fn |-> "accuracy_at_k", ranks |-> ranks, max_rank |-> max_rank,
                evaluated |-> <<>>,
                ret |-> AccuracyAtK(ranks, max_rank)]
    /\ UNCHANGED <<cache, hostVars, procs, names, out>>

NextRank ==
    \/ /\ pure.fn = "none"
       /\ \E aid_list \in RankLists :
             \E daid_list \in {aid_list} \cup {SetToSeq(D) : D \in SUBSET RankAids} :
                ApplyTbdMassAccuracy(aid_list, daid_list)
    \/ /\ pure.fn = "tbd_mass_accuracy"
       /\ \E max_rank \in MaxRanks : AccuracyOfRanks(max_rank)
    \/ /\ pure.fn = "none"
       /\ \E ranks \in RankResults, max_rank \in MaxRanks :
             ApplyAccuracyAtK(ranks, max_rank)
    \/ Forget

SpecRank == InitRank /\ [][NextRank]_vars

(***************************************************************************)
(* Claims about the embedding cache under sequential calls.                *)
(***************************************************************************)

\* C1: tbd_embedding returns one embedding per id of aid_list, in the order
\* of aid_list: the vector cached before the call for an id that was cached
\* (its entry is left as it was), the backend's vector for this call's
\* config for an id that was not; afterwards every id of aid_list is a key.
C1_OneEmbeddingPerId ==
    call.active =>
        /\ call.ret.raised = ""
        /\ Len(call.ret.val) = Len(call.aid_list)
        /\ Range(call.aid_list) \subseteq DOMAIN cache
        /\ \A a \in DOMAIN call.before :
              a \in DOMAIN cache /\ cache[a] = call.before[a]
        /\ \A i \in DOMAIN call.aid_list :
              LET a == call.aid_list[i]
              IN  /\ call.ret.val[i] = cache[a]
                  /\ a \in DOMAIN call.before => call.ret.val[i] = call.before[a]
                  /\ a \notin DOMAIN call.before =>
                        call.ret.val[i] = Forward(a, call.config)

\* A call that found one of its ids cached under another config and had to
\* compute another one.
C1_HitAndMiss ==
    /\ call.active
    /\ call.ret.raised = ""
    /\ \E i, j \in DOMAIN call.aid_list :
          /\ call.aid_list[i] \in DOMAIN call.before
          /\ call.before[call.aid_list[i]] # Forward(call.aid_list[i], call.config)
          /\ call.aid_list[j] \notin DOMAIN call.before

\* C2: a call with the id set of the call before it makes no backend call,
\* whatever its config and use_depc, and returns for every id the vector
\* the call before it returned for that id.
C2_SecondCallIsAllHits ==
    (call.active /\ prev.called /\ Range(call.aid_list) = Range(prev.aid_list)) =>
        /\ call.backend = <<>>
        /\ call.ret.raised = ""
        /\ Len(call.ret.val) = Len(call.aid_list)
        /\ Len(prev.val) = Len(prev.aid_list)
        /\ \A i \in DOMAIN call.aid_list : \A j \in DOMAIN prev.aid_list :
              call.aid_list[i] = prev.aid_list[j] => call.ret.val[i] = prev.val[j]

\* The first call computed its ids, the second one asks for the same ids
\* through the other backend.
C2_RepeatedCall ==
    /\ call.active
    /\ prev.called
    /\ prev.ncalls = 1
    /\ call.aid_list # <<>>
    /\ Range(call.aid_list) = Range(prev.aid_list)
    /\ ~call.use_depc
    /\ \E i \in DOMAIN call.aid_list :
          call.ret.val[i] # Forward(call.aid_list[i], call.config)

\* C4: no step removes a cache entry or changes its vector, and a call
\* returns, without an error, the vector an id was cached with before the
\* call, whatever config and use_depc the call is made with.
KeepsEntries ==
    /\ \A a \in DOMAIN cache : a \in DOMAIN cache' /\ cache'[a] = cache[a]
    /\ (~call.active /\ call'.active) =>
          /\ call'.ret.raised = ""
          /\ \A i \in DOMAIN call'.aid_list :
                call'.aid_list[i] \in DOMAIN cache =>
                    call'.ret.val[i] = cache[call'.aid_list[i]]

C4_EntriesNeverChange == [][KeepsEntries]_vars

\* A call under one config got, for every id it asked for, the vector
\* another config had produced.
C4_StaleAfterConfigSwap ==
    /\ call.active
    /\ call.ret.raised = ""
    /\ call.backend = <<>>
    /\ call.aid_list # <<>>
    /\ \A i \in DOMAIN call.aid_list :
          /\ call.ret.val[i] # Forward(call.aid_list[i], call.config)
          /\ \E other \in Configs :
                call.ret.val[i] = Forward(call.aid_list[i], other)

(***************************************************************************)
(* Claims about tbd_embedding step by step and under concurrent callers.   *)
(***************************************************************************)
InCall(st) == st.pc # "idle"

\* C3: a call of tbd_embedding invokes the backend at most once, not at all
\* when its scan found no miss, and with the whole list of misses when it
\* found some; when it starts reading the embeddings back the results of
\* that invocation are in the cache.
C3_OneBatchThenRead ==
    \A p \in Callers :
        LET st == procs[p]
        IN  InCall(st) =>
              /\ Len(st.backend) <= 1
              /\ st.pc \in {"insert", "read", "done"} =>
                    /\ st.dirty = <<>> => st.backend = <<>>
                    /\ st.dirty # <<>> =>
                          /\ Len(st.backend) = 1
                          /\ st.backend[1].aids = st.dirty
                          /\ Len(st.backend[1].out.val) = Len(st.dirty)
              /\ st.pc \in {"read", "done"} =>
                    /\ Range(st.dirty) \subseteq DOMAIN cache
                    /\ Range(st.aid_list) \subseteq DOMAIN cache

\* A call that found two ids missing, sent both in one invocation and is
\* reading back.
C3_TwoMissesOneBatch ==
    \E p \in Callers :
        /\ procs[p].pc = "read"
        /\ Len(procs[p].dirty) = 2
        /\ procs[p].dirty[1] # procs[p].dirty[2]
        /\ Len(procs[p].backend) = 1

IsEmbeddingOf(v, aid) == \E config \in Configs : v = Forward(aid, config)

\* C5: with the callers' steps interleaved in any order, every cache entry
\* is a vector the backend produces for its id, no caller fails, and a
\* caller returns one vector per position, each a vector the backend
\* produces for the id at that position.
C5_RaceKeepsMapSound ==
    /\ \A a \in DOMAIN cache : IsEmbeddingOf(cache[a], a)
    /\ \A p \in Callers :
          LET st == procs[p]
          IN  /\ st.pc # "raised"
              /\ st.pc \in {"read", "done"} =>
                    \A i \in DOMAIN st.ret : IsEmbeddingOf(st.ret[i], st.aid_list[i])
              /\ st.pc = "done" => Len(st.ret) = Len(st.aid_list)

\* Two callers computed the same missing id, each under its own config, and
\* one of them returns the vector the other one stored.
C5_DuplicatedComputation ==
    \E p, q \in Callers :
        /\ p # q
        /\ procs[p].pc = "done"
        /\ procs[q].pc = "done"
        /\ procs[p].config # procs[q].config
        /\ \E a \in Aids :
              /\ a \in Range(procs[p].dirty)
              /\ a \in Range(procs[q].dirty)
              /\ \E i \in DOMAIN procs[p].ret :
                    /\ procs[p].aid_list[i] = a
                    /\ procs[p].ret[i] = Forward(a, procs[q].config)

(***************************************************************************)
(* Claims about the score helpers.                                         *)
(***************************************************************************)
IsAidScores == pure.fn = "aid_scores_from_name_scores"

RECURSIVE SumWhere(_, _, _, _)
SumWhere(scores, labels, name, i) ==
    IF i > Len(scores)
    THEN Whole(0)
    ELSE LET rest == SumWhere(scores, labels, name, i + 1)
         IN  IF labels[i] = name THEN RAdd(scores[i], rest) ELSE rest

\* C7: aid_scores_from_name_scores gives every annotation of an identity n
\* that has score s in name_score_dict and labels k >= 1 annotations of
\* daid_list the score s / k, at the annotation's position in daid_list, and
\* the scores of n's annotations add up to s.
C7_SharesAddUpToNameScore ==
    IsAidScores =>
        LET labels == DbLabelsForTbd(pure.daid_list)
        IN  \A n \in DOMAIN pure.name_score_dict :
                LET k == NameCount(labels, n)
                    s == pure.name_score_dict[n]
                IN  k >= 1 =>
                      /\ pure.ret.raised = ""
                      /\ Len(pure.ret.val) = Len(pure.daid_list)
                      /\ \A i \in DOMAIN labels :
                            labels[i] = n => RTimesInt(pure.ret.val[i], k) = s
                      /\ SumWhere(pure.ret.val, labels, n, 1) = s

\* C8: aid_scores_from_name_scores returns for every name_score_dict and
\* daid_list, and gives score 0 to every annotation whose label is no key of
\* name_score_dict, also when a key labels no annotation of daid_list.
C8_AbsentLabelsScoreZero ==
    IsAidScores =>
        LET labels == DbLabelsForTbd(pure.daid_list)
        IN  /\ pure.ret.raised = ""
            /\ Len(pure.ret.val) = Len(pure.daid_list)
            /\ \A i \in DOMAIN labels :
                  labels[i] \notin DOMAIN pure.name_score_dict =>
                      pure.ret.val[i] = Whole(0)

\* C10: the module-level distance_to_score maps [0, 2] into [0, 1], never
\* gives the larger of two distances the larger score, and maps 0 to 1 and
\* 2 to 0.
C10_ScoreFallsWithDistance ==
    pure.fn = "distance_to_score" =>
        /\ RLe(Whole(0), pure.s1) /\ RLe(pure.s1, Whole(1))
        /\ RLe(pure.d1, pure.d2) => RLe(pure.s2, pure.s1)
        /\ pure.d1 = Whole(0) => pure.s1 = Whole(1)
        /\ pure.d1 = Whole(2) => pure.s1 = Whole(0)

\* The two ends of the range, and two distances in between.
C10_BothEnds ==
    /\ pure.fn = "distance_to_score"
    /\ pure.d1 = Whole(0) /\ pure.s1 = Whole(1)
    /\ pure.d2 = Whole(2) /\ pure.s2 = Whole(0)

(***************************************************************************)
(* Claims about the pair-scoring table function.                           *)
(***************************************************************************)

\* C6: wbia_plugin_tbd yields the score 0 for every pair of an annotation
\* with itself, with use_knn and without, whatever score it computed for
\* that pair.
C6_SelfPairScoresZero ==
    out.active =>
        \A i \in DOMAIN out.qaid_list :
            out.qaid_list[i] = out.daid_list[i] => out.scores[i] = Whole(0)

\* A run that computed a score other than 0 for an annotation with itself.
C6_SelfPairHadScore ==
    /\ out.active
    /\ \E i \in DOMAIN out.qaid_list :
          /\ out.qaid_list[i] = out.daid_list[i]
          /\ out.computed[out.qaid_list[i]].scores[out.daid_list[i]] # Whole(0)
          /\ out.scores[i] = Whole(0)

\* C9: every score wbia_plugin_tbd yields for a pair of two different
\* annotations lies in [0, 1], and without use_knn it is (2 - distance) / 2
\* of the pair's cosine distance.
C9_ScoresUseHalvedDistance ==
    out.active =>
        \A i \in DOMAIN out.qaid_list :
            LET q == out.qaid_list[i]
                d == out.daid_list[i]
            IN  q # d =>
                  /\ RLe(Whole(0), out.scores[i])
                  /\ RLe(out.scores[i], Whole(1))
                  /\ ~out.use_knn =>
                        RTimesInt(out.scores[i], 2)
                            = RSub(Whole(2), out.computed[q].distances[d])

(***************************************************************************)
(* Claims about the network.                                               *)
(***************************************************************************)

\* C11: forward in training mode without a label always fails with an
\* assertion error, whatever the loss module; in evaluation mode it hands
\* back what extract_feat gives and never calls self.final.
C11_ForwardChecksLabelInTraining ==
    pure.fn = "forward" =>
        /\ (pure.training /\ ~pure.has_label) =>
               pure.run.ret.raised = "AssertionError"
        /\ ~pure.training =>
               /\ pure.run.ret = ExtractFeat(MiewIdNet(pure.params))
               /\ pure.run.final_calls = 0

\* C15: with use_fc the embedding of extract_feat has passed the dropout and
\* the linear projection and has width fc_dim, the width self.final is built
\* for; without use_fc it is the pooled, batch-normalized backbone feature.
C15_ExtractFeatIsProjected ==
    pure.fn = "extract_feat" =>
        LET net == MiewIdNet(pure.params)
            pooled == <<"backbone", "pooling">>
        IN  IF pure.params.use_fc
            THEN /\ pure.ret.raised = ""
                 /\ pure.ret.val.width = pure.params.fc_dim
                 /\ net.final.in_features = pure.params.fc_dim
                 /\ "dropout" \in Range(pure.ret.val.stages)
                 /\ "fc" \in Range(pure.ret.val.stages)
            ELSE pure.ret = Returned(Tensor(pure.params.width, Append(pooled, "bn")))

(***************************************************************************)
(* Claims about empty inputs and about the device of the loaded model.     *)
(***************************************************************************)

\* C12: empty inputs give an empty result and never raise: tbd_embedding and
\* tbd_compute_embedding of an empty aid_list return an empty list, and
\* wbia_plugin_tbd of empty pair lists yields no score.
C12_EmptyInputsReturnEmpty ==
    /\ (call.active /\ call.aid_list = <<>>) => call.ret = Returned(<<>>)
    /\ (out.active /\ out.qaid_list = <<>>) => out.scores = <<>>
    /\ (pure.fn = "tbd_compute_embedding" /\ pure.aid_list = <<>>) =>
           pure.run.ret = Returned(<<>>)

\* C18: the model tbd_compute_embedding loads sits on the device _load_config
\* chose: without CUDA it is built and loaded with nothing moved to a CUDA
\* device, and it is moved to CUDA only when config.use_gpu is True.
C18_ModelDeviceFollowsConfig ==
    (pure.fn = "tbd_compute_embedding" /\ pure.aid_list # <<>>) =>
        LET config == pure.run.loaded[1].config
            model == pure.run.loaded[1].model
        IN  /\ ~config.use_gpu =>
                   /\ model.raised = ""
                   /\ model.val.cuda_moves = 0
                   /\ model.val.device = "cpu"
            /\ (model.raised = "" /\ model.val.cuda_moves > 0) => config.use_gpu

(***************************************************************************)
(* Claims about the ids one call hands to the backend.                     *)
(***************************************************************************)

\* C16: within one call of tbd_embedding the ids handed to the backend are
\* the ids missing from the cache, each exactly once, also when aid_list
\* repeats a missing id; repeated positions of the result hold one vector.
C16_BackendGetsEachMissingIdOnce ==
    call.active =>
        /\ \A k \in DOMAIN call.backend :
              LET aids == call.backend[k].aids
              IN  /\ Range(aids) = Range(call.aid_list) \ DOMAIN call.before
                  /\ \A i, j \in DOMAIN aids : aids[i] = aids[j] => i = j
        /\ call.ret.raised = "" =>
              \A i, j \in DOMAIN call.aid_list :
                  call.aid_list[i] = call.aid_list[j] =>
                      call.ret.val[i] = call.ret.val[j]

(***************************************************************************)
(* Claims about the rank evaluation.                                       *)
(***************************************************************************)
RanksUpTo(ranks, k) == Cardinality({j \in DOMAIN ranks : ranks[j] \in 1..k})

\* C13: accuracy_at_k returns max_rank values; the k-th is the fraction of
\* the queries whose rank lies in 1..k, so the values never decrease with k
\* and lie in [0, 1].
C13_AccuracyAtKIsFractionRankedUpToK ==
    pure.fn = "accuracy_at_k" =>
        /\ pure.ret.raised = ""
        /\ Len(pure.ret.val) = pure.max_rank
        /\ \A k \in 1..pure.max_rank :
              /\ RTimesInt(pure.ret.val[k], Len(pure.ranks))
                     = Whole(RanksUpTo(pure.ranks, k))
              /\ RLe(Whole(0), pure.ret.val[k])
              /\ RLe(pure.ret.val[k], Whole(1))
              /\ k > 1 => RLe(pure.ret.val[k - 1], pure.ret.val[k])

\* The query's identity names another entry of the database list.
HasOtherAnnotation(qaid, daid_list) ==
    LET daids == ListRemove(daid_list, qaid).val
    IN  \E i \in DOMAIN daids : names[daids[i]] = names[qaid]

\* C14: in the rank evaluation a query whose identity has no other
\* annotation in the database list has rank -1 and is left out of the
\* denominator of every accuracy-at-k value.
C14_UnmatchableQueriesLeaveDenominator ==
    (pure.fn = "accuracy_at_k" /\ pure.evaluated # <<>>) =>
        LET aid_list == pure.evaluated[1].aid_list
            daid_list == pure.evaluated[1].daid_list
            matchable == {i \in DOMAIN aid_list :
                             HasOtherAnnotation(aid_list[i], daid_list)}
        IN  /\ \A i \in DOMAIN aid_list : pure.ranks[i] = -1 <=> i \notin matchable
            /\ matchable # {} =>
                  /\ pure.ret.raised = ""
                  /\ \A k \in 1..pure.max_rank :
                        RTimesInt(pure.ret.val[k], Cardinality(matchable))
                            = Whole(RanksUpTo(pure.ranks, k))

(***************************************************************************)
(* Claims about the match results.                                         *)
(***************************************************************************)

\* C17: with use_knn, for every query q and every identity n among the
\* database annotations, the name score of n in q's match result (the sum of
\* the scores of n's annotations other than q) is the score
\* distance_dicts_to_name_score_dicts gave n, also when n is q's own
\* identity and q is in the database.
C17_MatchNameScoreIsNameLevelScore ==
    (pure.fn = "get_match_results" /\ pure.use_knn) =>
        \A qaid \in DOMAIN pure.cm_list :
            \A daid \in Range(pure.daid_list) :
                LET nid == AnnotNid(daid)
                    name_scores == pure.cm_list[qaid].name_scores
                    s == pure.computed[qaid].name_scores[<<names[daid], 0>>]
                IN  /\ nid \in DOMAIN name_scores
                    /\ name_scores[nid] = s

====
